---- MODULE Spec2Model ----
(***************************************************************************)
(* A model of the tw-nhi-icc client (src/src/lib.ts): the live update      *)
(* channel of TWNHIICCService (openWebSocket, closeWebSocket, the          *)
(* reconnect sequence `retry`, the message handler, setWebSocketInterval), *)
(* the timed request executor fetchWithTimeout behind getVersion and       *)
(* getCardList, and the reshaping of card lists, mapCardList.              *)
(*                                                                         *)
(* The program is single threaded and event driven: every action below is  *)
(* one run-to-completion piece of the code, from an API call or an event   *)
(* (socket open/error/close, timer, promise settlement) up to its next     *)
(* await.  Time is in milliseconds.                                        *)
(***************************************************************************)
EXTENDS Integers, Sequences, FiniteSets

VARIABLES
    sockets,            \* the WebSocket objects the channel constructed and that still exist
    webSocket,          \* this.webSocket: NoSocket (null) or a slot of sockets
    webSocketInterval,  \* this.webSocketInterval
    onWebSocketRetry,   \* this.onWebSocketRetry: TRUE when a retry policy is registered
    onWebSocketUpdate,  \* this.onWebSocketUpdate: TRUE when an update callback is registered
    retries,            \* the running invocations of retry(), each at its await
    now,                \* Date.now()
    rejection,          \* history: the error an openWebSocket() promise was rejected with in this step
    closedByCaller,     \* history: closeWebSocket() returned and openWebSocket() was not called since
    vetoed,             \* history: the retry policy answered false and openWebSocket() was not called since
    lastAttempt,        \* history: when the reconnect path last constructed a socket (-1: never)
    closedSince,        \* history: for each running retry(), closeWebSocket() was called since it started
    observed,           \* history: what this step did that can be seen from outside the channel
    request             \* the getVersion()/getCardList() call in progress

vars == <<sockets, webSocket, webSocketInterval, onWebSocketRetry, onWebSocketUpdate,
          retries, now, rejection, closedByCaller, vetoed, lastAttempt, closedSince,
          observed, request>>

----------------------------------------------------------------------------
(* Bounds of the model. *)

MaxSockets == 2         \* WebSocket objects existing at one time
MaxRetries == 2         \* invocations of retry() running at one time
MaxTime == 1500         \* the clock stops here
MaxCards == 2           \* cards in one card list
StableFrom == 2500      \* from this time on the service accepts and keeps every connection
TickSteps == {500}

(* Program constants. *)

RETRY_INTERVAL == 1000
NoSocket == 0
DefaultInterval == 3
NormalClosure == 1000

----------------------------------------------------------------------------
(* Values. *)

\* An interval (seconds): undefined, or the number v + frac/10 with v its floor
\* and frac a digit, so that Math.floor has something to do (2.9 is v = 2, frac = 9).
UndefinedInterval == [def |-> FALSE, v |-> 0, frac |-> 0]
Interval(v) == [def |-> TRUE, v |-> v, frac |-> 0]
Fraction(v, frac) == [def |-> TRUE, v |-> v, frac |-> frac]

\* The arguments the caller gives to openWebSocket and to setWebSocketInterval.
IntervalArgs == {UndefinedInterval, Interval(-5), Fraction(2, 9)}
SetIntervalArgs == {UndefinedInterval, Interval(-5), Interval(5)}

\* `interval: number | undefined = 3`, line 221: the default value of the
\* parameter stands in for an argument that is missing or undefined.
EffectiveInterval(arg) == IF arg.def THEN arg ELSE Interval(DefaultInterval)

\* ClampInterval without the lines 229-233 (374-378): the interval is used as given.
ClampIntervalAsGiven(arg) == arg

\* lines 228-233 and 373-378: a negative interval becomes 0, any other its floor;
\* undefined stays undefined.
ClampInterval(arg) ==
    IF ~arg.def THEN UndefinedInterval
    ELSE IF arg.v < 0 THEN Interval(0)
    ELSE Interval(arg.v)

\* interval.toString(), lines 237, 299 and 380: the decimal text of a number
\* (of a negative number only when it is whole): "-5", "2.9", "2".
ToString(x) ==
    [sign |-> IF x.v < 0 THEN "-" ELSE "",
     whole |-> IF x.v < 0 THEN 0 - x.v ELSE x.v,
     frac |-> x.frac]

\* The text is that of a non-negative integer.
IsNonNegativeInteger(text) == text.sign = "" /\ text.frac = 0

\* The address of a socket, lines 226-238 and 294-300: this.apiWebsocket, with
\* the query parameter `interval` appended when the interval is not undefined.
URL(interval) ==
    [path |-> "/ws",
     query |-> IF interval.def
               THEN <<[key |-> "interval", value |-> ToString(interval)]>>
               ELSE <<>>]

PolicyResults == {"true", "false", "undefined", "throw", "reject"}

\* What a call of the update callback does: it returns undefined, throws, or
\* returns a promise that resolves or rejects later.
UpdateResults == {"undefined", "throw", "resolve", "reject"}

\* Two cards in the wire shape (interface ServiceNHICard, lines 20-30).
CardA ==
    [reader_name |-> "reader A", card_no |-> "000011112222", full_name |-> "name A",
     id_no |-> "A123456789", birth_date |-> "1970-01-01", birth_date_timestamp |-> 1000,
     sex |-> "M", issue_date |-> "1970-01-02", issue_date_timestamp |-> 2000]
CardB ==
    [reader_name |-> "reader B", card_no |-> "000033334444", full_name |-> "name B",
     id_no |-> "B223456789", birth_date |-> "1970-01-03", birth_date_timestamp |-> 3000,
     sex |-> "F", issue_date |-> "1970-01-04", issue_date_timestamp |-> 4000]
WireCards == {CardA, CardB}

\* The card lists the service answers with, and those it pushes.
WireLists == UNION {[1..n -> WireCards] : n \in 0..MaxCards}
MessageLists == {<<>>, <<CardB, CardA>>}

\* `new Date(timestamp)`, lines 135 and 137: the point in time that many
\* milliseconds after the epoch (the timestamps here are whole and in range).
NewDate(timestamp) == [time |-> timestamp]

\* The function given to cards.map, lines 129-139.
mapCard(e) ==
    [readerName |-> e.reader_name,
     cardNo |-> e.card_no,
     fullName |-> e.full_name,
     idNo |-> e.id_no,
     birthday |-> NewDate(e.birth_date_timestamp),
     sex |-> e.sex,
     issueDate |-> NewDate(e.issue_date_timestamp)]

\* mapCardList with the list turned round (cards.reverse().map(...)).
mapCardListReversed(cards) ==
    [i \in 1..Len(cards) |-> mapCard(cards[Len(cards) + 1 - i])]

\* mapCardList, lines 128-140: Array.prototype.map keeps length and order.
mapCardList(cards) == [i \in 1..Len(cards) |-> mapCard(cards[i])]

\* A step that nothing of is seen outside.  Each field holds no element or one:
\*   address   the address given to `new WebSocket(url)`
\*   sent      the data given to webSocket.send(data)
\*   closed    the code given to webSocket.close(code), with the socket's state before
\*   returned  the value setWebSocketInterval() returned
\*   message   the card list of the message event, with its socket
\*   invoked   the argument the update callback was called with
\*   policy    whether the answer of the retry policy was a veto
\* and escaped tells that an exception left the event handler.
Nothing ==
    [call |-> "none", address |-> <<>>, sent |-> <<>>, closed |-> <<>>,
     returned |-> <<>>, message |-> <<>>, invoked |-> <<>>, escaped |-> FALSE,
     policy |-> <<>>]

Slots == 1..MaxSockets

\* A slot that holds no socket.
Free == [kind |-> "none", st |-> "free"]

\* `new WebSocket(url)`: lines 243 and 304.
NewSocket(kind) == [kind |-> kind, st |-> "connecting"]

Alive(socks) == {s \in Slots : socks[s].st # "free"}
HasFreeSlot == Alive(sockets) # Slots
FreeSlot == CHOOSE s \in Slots : sockets[s].st = "free" /\ \A u \in 1..(s - 1) : sockets[u].st # "free"

\* A closed socket that this.webSocket does not refer to can deliver no event
\* and is referred to by nothing: it is garbage.
Collect(socks, ws) ==
    [s \in Slots |-> IF socks[s].st = "closed" /\ s # ws THEN Free ELSE socks[s]]

RemoveAt(seq, i) == SubSeq(seq, 1, i - 1) \o SubSeq(seq, i + 1, Len(seq))

----------------------------------------------------------------------------
(* The channel. *)

InitChannel ==
    /\ sockets = [s \in Slots |-> Free]
    /\ webSocket = NoSocket
    /\ webSocketInterval = UndefinedInterval
    /\ onWebSocketRetry = FALSE
    /\ onWebSocketUpdate = FALSE
    /\ retries = <<>>
    /\ now = 0
    /\ rejection = "none"
    /\ closedByCaller = FALSE
    /\ vetoed = FALSE
    /\ lastAttempt = -1
    /\ closedSince = <<>>
    /\ observed = Nothing

\* isWebSocketRunning(), lines 349-351.
isWebSocketRunning == webSocket # NoSocket

\* The guard of openWebSocket, lines 222-224: `if (this.webSocket) return;`.
openWebSocketReturnsEarly == webSocket # NoSocket

\* openWebSocket(interval) up to its await, lines 221-243.
openWebSocket(arg) ==
    /\ rejection' = "none"
    /\ closedByCaller' = FALSE
    /\ vetoed' = FALSE
    /\ IF openWebSocketReturnsEarly
       THEN /\ observed' = [Nothing EXCEPT !.call = "openWebSocket"]
            /\ UNCHANGED <<sockets, webSocketInterval>>
       ELSE /\ HasFreeSlot
            /\ webSocketInterval' = ClampInterval(EffectiveInterval(arg))
            /\ sockets' = [sockets EXCEPT ![FreeSlot] = NewSocket("initial")]
            /\ observed' = [Nothing EXCEPT !.call = "openWebSocket",
                                           !.address = <<URL(webSocketInterval')>>]
    /\ UNCHANGED <<webSocket, onWebSocketRetry, onWebSocketUpdate, retries, now,
                   lastAttempt, closedSince, request>>

\* The first lines of retry(), 268-273 (and 284-288 when no policy is registered):
\* the invocation stops at the await of the policy, or at the await of the sleep.
retry ==
    IF onWebSocketRetry
    THEN Append(retries, [pc |-> "policy", t |-> now, wake |-> now])
    ELSE Append(retries, [pc |-> "sleep", t |-> now, wake |-> now + RETRY_INTERVAL])

\* What the open event of socket s leaves in this.webSocket: line 343 after
\* webSocket.onopen (lines 245-328), line 313 in newWebSocket.onopen.
OnOpenInstalls(s) == s

\* The socket's open event: webSocket.onopen (lines 245-328) followed by the
\* continuation of `this.webSocket = await promise` (line 343), which runs in the
\* same turn of the event loop; or newWebSocket.onopen (lines 306-314).
onopen(s) ==
    /\ sockets[s].st = "connecting"
    /\ rejection' = "none"
    /\ webSocket' = OnOpenInstalls(s)
    /\ sockets' = Collect([sockets EXCEPT ![s].st = "open"], webSocket')
    /\ observed' = Nothing
    /\ UNCHANGED <<webSocketInterval, onWebSocketRetry, onWebSocketUpdate, retries, now,
                   closedByCaller, vetoed, lastAttempt, closedSince, request>>

\* webSocket.onerror, lines 330-340: both branches reject with a NetworkError.
InitialErrorRejection == "NetworkError"

\* OnReconnectError with a handler that gives up: no retry() is started.
OnReconnectErrorGivesUp == retries

\* newWebSocket.onerror, lines 316-318: `void retry();`, whatever the state of
\* the channel.
OnReconnectError == retry

\* The socket's error event while connecting: webSocket.onerror (lines 330-340)
\* rejects the call's promise; newWebSocket.onerror (lines 316-318) starts
\* another retry().
onerror(s) ==
    /\ sockets[s].st = "connecting"
    /\ sockets' = Collect([sockets EXCEPT ![s].st = "closed"], webSocket)
    /\ IF sockets[s].kind = "initial"
       THEN /\ rejection' = InitialErrorRejection
            /\ UNCHANGED <<retries, closedSince>>
       ELSE /\ rejection' = "none"
            /\ Len(retries) < MaxRetries
            /\ retries' = OnReconnectError
            /\ closedSince' = Append(closedSince, FALSE)
    /\ observed' = Nothing
    /\ UNCHANGED <<webSocket, webSocketInterval, onWebSocketRetry, onWebSocketUpdate, now,
                   closedByCaller, vetoed, lastAttempt, request>>

\* HasCloseHandler without line 309: only the socket of openWebSocket() gets
\* the handler.
HasCloseHandlerInitialOnly(kind) == kind = "initial"

\* `webSocket.onclose = onclose` (line 323) and `newWebSocket.onclose = onclose`
\* (line 309): the open event of a socket of either kind puts the one onclose
\* on it.
HasCloseHandler(kind) == kind \in {"initial", "reconnect"}

\* onclose, lines 246-252: `if (!this.webSocket) return; void retry();`.
OnCloseStartsRetry == webSocket # NoSocket

\* The socket's close event: the remote end or the network dropped an open
\* connection, or the closing handshake started by close(1000) finished.
onclose(s) ==
    /\ sockets[s].st \in {"open", "closing"}
    /\ rejection' = "none"
    /\ sockets' = Collect([sockets EXCEPT ![s].st = "closed"], webSocket)
    /\ IF HasCloseHandler(sockets[s].kind) /\ OnCloseStartsRetry
       THEN /\ Len(retries) < MaxRetries
            /\ retries' = retry
            /\ closedSince' = Append(closedSince, FALSE)
       ELSE UNCHANGED <<retries, closedSince>>
    /\ observed' = Nothing
    /\ UNCHANGED <<webSocket, webSocketInterval, onWebSocketRetry, onWebSocketUpdate, now,
                   closedByCaller, vetoed, lastAttempt, request>>

\* CloseLeaves without line 359: this.webSocket keeps the socket.
CloseLeavesSocket == webSocket

\* `this.webSocket = null`, line 359.
CloseLeaves == NoSocket

\* closeWebSocket(), lines 356-361.
closeWebSocket ==
    /\ rejection' = "none"
    /\ closedByCaller' = TRUE
    /\ closedSince' = [r \in 1..Len(retries) |-> TRUE]
    /\ IF webSocket # NoSocket
       THEN /\ webSocket' = CloseLeaves
            /\ sockets' = Collect([sockets EXCEPT ![webSocket].st =
                                      IF @ = "open" THEN "closing" ELSE @], webSocket')
            /\ observed' = [Nothing EXCEPT !.call = "closeWebSocket",
                                !.closed = <<[code |-> NormalClosure,
                                              state |-> sockets[webSocket].st]>>]
       ELSE /\ observed' = [Nothing EXCEPT !.call = "closeWebSocket"]
            /\ UNCHANGED <<sockets, webSocket>>
    /\ UNCHANGED <<webSocketInterval, onWebSocketRetry, onWebSocketUpdate, retries, now,
                   vetoed, lastAttempt, request>>

\* The caller assigns the public field onWebSocketRetry (line 158).
SetOnWebSocketRetry(registered) ==
    /\ onWebSocketRetry # registered
    /\ rejection' = "none"
    /\ onWebSocketRetry' = registered
    /\ observed' = Nothing
    /\ UNCHANGED <<sockets, webSocket, webSocketInterval, onWebSocketUpdate, retries, now,
                   closedByCaller, vetoed, lastAttempt, closedSince, request>>

\* PolicyVetoes with the test of line 275 written as `!result`.
PolicyVetoesFalsy(result) == result \in {"false", "undefined"}

\* `result === false`, line 275.
PolicyVetoes(result) == result = "false"

\* `if (d < RETRY_INTERVAL) await sleep(RETRY_INTERVAL - d)`, lines 284-288.
MustSleep(d) == d < RETRY_INTERVAL
SleepTime(d) == RETRY_INTERVAL - d

\* `if (!this.webSocket) return;`, lines 290-292.
RetryAborts == webSocket = NoSocket

\* ReconnectInterval with the interval taken to be always undefined (the
\* address of line 294 used as it is).
ReconnectIntervalNone == UndefinedInterval

\* The interval of the reconnect address, lines 296-300: this.webSocketInterval,
\* read when the socket is constructed.
ReconnectInterval == webSocketInterval

\* Lines 290-318 of retry(): the re-check, the address and the new socket.
\* The invocation r of retry() ends here either way.  (answer: whether the
\* policy vetoed, when the step is that of its answer.)
Reconnect(r, answer) ==
    IF RetryAborts
    THEN /\ retries' = RemoveAt(retries, r)
         /\ closedSince' = RemoveAt(closedSince, r)
         /\ observed' = [Nothing EXCEPT !.policy = answer]
         /\ UNCHANGED <<sockets, lastAttempt>>
    ELSE /\ HasFreeSlot
         /\ retries' = RemoveAt(retries, r)
         /\ closedSince' = RemoveAt(closedSince, r)
         /\ sockets' = [sockets EXCEPT ![FreeSlot] = NewSocket("reconnect")]
         /\ observed' = [Nothing EXCEPT !.policy = answer,
                                        !.address = <<URL(ReconnectInterval)>>]
         /\ lastAttempt' = now

\* The policy's answer arrives (lines 273-288): its promise settles, or it threw.
RetryPolicyAnswer(r, result) ==
    /\ retries[r].pc = "policy"
    /\ rejection' = "none"
    /\ IF PolicyVetoes(result)
       THEN /\ webSocket' = NoSocket
            /\ vetoed' = TRUE
            /\ retries' = RemoveAt(retries, r)
            /\ closedSince' = RemoveAt(closedSince, r)
            /\ sockets' = Collect(sockets, webSocket')
            /\ observed' = [Nothing EXCEPT !.policy = <<PolicyVetoes(result)>>]
            /\ UNCHANGED lastAttempt
       ELSE /\ UNCHANGED <<webSocket, vetoed>>
            /\ IF MustSleep(now - retries[r].t)
               THEN /\ retries' = [retries EXCEPT ![r].pc = "sleep",
                                      ![r].wake = now + SleepTime(now - retries[r].t)]
                    /\ observed' = [Nothing EXCEPT !.policy = <<PolicyVetoes(result)>>]
                    /\ UNCHANGED <<sockets, lastAttempt, closedSince>>
               ELSE Reconnect(r, <<PolicyVetoes(result)>>)
    /\ UNCHANGED <<webSocketInterval, onWebSocketRetry, onWebSocketUpdate, now,
                   closedByCaller, request>>

\* sleep(ms) of ./sleep.js: its promise settles once ms have passed.
SleepIsOver(r) == now >= retries[r].wake

\* The sleep of line 287 is over and retry() goes on at line 290.
RetryWake(r) ==
    /\ retries[r].pc = "sleep"
    /\ SleepIsOver(r)
    /\ rejection' = "none"
    /\ Reconnect(r, <<>>)
    /\ UNCHANGED <<webSocket, webSocketInterval, onWebSocketRetry, onWebSocketUpdate, now,
                   closedByCaller, vetoed, request>>

\* The guard of setWebSocketInterval, lines 369-371: `if (!this.webSocket) return false;`.
SetIntervalReturnsEarly == webSocket = NoSocket

\* webSocket.send(data) puts the data on the connection when the socket is
\* open; a socket that is closing or closed takes the data and drops it.
Transmitted(state) == state = "open"

\* setWebSocketInterval(interval), lines 368-390.
setWebSocketInterval(arg) ==
    /\ rejection' = "none"
    /\ IF SetIntervalReturnsEarly
       THEN /\ observed' = [Nothing EXCEPT !.call = "setWebSocketInterval",
                                           !.returned = <<FALSE>>]
            /\ UNCHANGED webSocketInterval
       ELSE IF arg.def
       THEN /\ webSocketInterval' = ClampInterval(arg)
            /\ observed' = [Nothing EXCEPT !.call = "setWebSocketInterval",
                                !.sent = <<[data |-> ToString(ClampInterval(arg)),
                                            state |-> sockets[webSocket].st]>>,
                                !.returned = <<TRUE>>]
       ELSE /\ webSocketInterval' = UndefinedInterval
            /\ observed' = [Nothing EXCEPT !.call = "setWebSocketInterval",
                                           !.returned = <<FALSE>>]
    /\ UNCHANGED <<sockets, webSocket, onWebSocketRetry, onWebSocketUpdate, retries, now,
                   closedByCaller, vetoed, lastAttempt, closedSince, request>>

\* The caller assigns the public field onWebSocketUpdate (line 163).
SetOnWebSocketUpdate(registered) ==
    /\ onWebSocketUpdate # registered
    /\ rejection' = "none"
    /\ onWebSocketUpdate' = registered
    /\ observed' = Nothing
    /\ UNCHANGED <<sockets, webSocket, webSocketInterval, onWebSocketRetry, retries, now,
                   closedByCaller, vetoed, lastAttempt, closedSince, request>>

\* The text of a message of the service: the JSON of a card list.  JSON.parse
\* (line 256) gives the list back.
JSONText(cards) == [json |-> cards]
JSONParse(text) == text.json

\* OnMessageInvokes with the list handed over as it came (no mapCardList).
OnMessageInvokesRaw(registered, data) ==
    IF registered THEN <<JSONParse(data)>> ELSE <<>>

\* Lines 255-258: the calls of the update callback that one message makes.
OnMessageInvokes(registered, data) ==
    IF registered THEN <<mapCardList(JSONParse(data))>> ELSE <<>>

\* Lines 258-264: an exception of the callback leaves onmessage, since the
\* call of line 258 stands in no try block; a promise it returns gets a
\* catch handler, so its rejection goes to console.error.
OnMessageThrows(registered, result) == registered /\ result = "throw"

\* The message event of socket s: onmessage, lines 254-266.  The handler is on
\* the socket from its open event on, and a socket delivers messages while it is open.
onmessage(s, cards, result) ==
    /\ sockets[s].st = "open"
    /\ rejection' = "none"
    /\ observed' = [Nothing EXCEPT
                        !.call = "onmessage",
                        !.message = <<[kind |-> sockets[s].kind, cards |-> cards]>>,
                        !.invoked = OnMessageInvokes(onWebSocketUpdate, JSONText(cards)),
                        !.escaped = OnMessageThrows(onWebSocketUpdate, result)]
    /\ UNCHANGED <<sockets, webSocket, webSocketInterval, onWebSocketRetry,
                   onWebSocketUpdate, retries, now, closedByCaller, vetoed, lastAttempt,
                   closedSince, request>>

----------------------------------------------------------------------------
(* The timed request executor: fetchWithTimeout, lines 82-126, called by   *)
(* getVersion (lines 196-198) and getCardList (lines 208-212).             *)

DefaultVersionTimeout == 5000
DefaultCardListTimeout == 15000

\* A timeout argument: undefined (the parameter's default applies) or a number.
UndefinedTimeout == [def |-> FALSE, v |-> 0]
Timeout(v) == [def |-> TRUE, v |-> v]
TimeoutArgs == {UndefinedTimeout, Timeout(-1), Timeout(0), Timeout(1000)}

Statuses == {200, 201, 404}

\* `timeout = 5000` and `timeout = 15000`: the default parameter values.
EffectiveTimeout(api, arg) ==
    IF arg.def THEN arg.v
    ELSE IF api = "getVersion" THEN DefaultVersionTimeout ELSE DefaultCardListTimeout

\* HasDeadline with the test of line 83 written as a truth test of the timeout
\* (`config.timeout && ...`), which 0 fails.
HasDeadlineTruthy(timeout) == timeout > 0

\* Line 83: a signal is made for every timeout that is >= 0 (getVersion and
\* getCardList pass no signal of their own and always pass a timeout).
HasDeadline(timeout) == timeout >= 0

\* The body of a response: the JSON text of a card list ("json"), a text that
\* is no JSON ("text"), or a body that breaks off with the connection ("broken").
NoBody == [kind |-> "none", json |-> <<>>]
Bodies ==
    {[kind |-> "text", json |-> <<>>], [kind |-> "broken", json |-> <<>>]}
        \cup {[kind |-> "json", json |-> cards] : cards \in WireLists}

\* A request.  When it is done, outcome is "value" or the kind of the error
\* thrown, value holds the value returned and message what the text of the
\* error carries (each holds no element or one).
IdleRequest ==
    [pc |-> "idle", api |-> "none", arg |-> UndefinedTimeout, host |-> "none",
     start |-> 0, timed |-> FALSE, deadline |-> 0, status |-> 0, body |-> NoBody,
     event |-> "none", outcome |-> "none", value |-> <<>>, message |-> <<>>]

\* getVersion(timeout) / getCardList(timeout) up to `await fetch(url, config)`,
\* lines 82-90.  The host is reachable or not: the environment's choice.
fetchWithTimeout(api, arg, host) ==
    /\ request.pc \in {"idle", "done"}
    /\ request' = [IdleRequest EXCEPT
                      !.pc = "fetch", !.api = api, !.arg = arg, !.host = host,
                      !.start = now,
                      !.timed = HasDeadline(EffectiveTimeout(api, arg)),
                      !.deadline = now + EffectiveTimeout(api, arg)]
    /\ UNCHANGED <<sockets, webSocket, webSocketInterval, onWebSocketRetry,
                   onWebSocketUpdate, retries, now, rejection, closedByCaller, vetoed,
                   lastAttempt, closedSince, observed>>

getVersion(arg, host) == fetchWithTimeout("getVersion", arg, host)
getCardList(arg, host) == fetchWithTimeout("getCardList", arg, host)

\* The signal of AbortSignal.timeout(timeout) has fired.
DeadlineElapsed == request.timed /\ now >= request.deadline

\* ClassifyFetchError with the test of line 92 written as `error instanceof Error`,
\* which every rejection of fetch() passes.
ClassifyFetchErrorAnyError(error) ==
    IF error \in {"DOMException", "TypeError", "Error"} THEN "TimeoutError" ELSE error

\* The catch of lines 91-104: what fetchWithTimeout throws for a rejection of fetch().
\* fetch() rejects with a DOMException when its signal aborts, and with a
\* TypeError (which has a name and a message) when the network fails.
ClassifyFetchError(error) ==
    IF error = "DOMException" THEN "TimeoutError"
    ELSE IF error \in {"TypeError", "Error"} THEN "NetworkError"
    ELSE error

\* ClassifyBodyError with line 124 throwing a NetworkError, as line 100 does.
ClassifyBodyErrorNetwork(error) ==
    IF error = "DOMException" THEN "TimeoutError" ELSE "NetworkError"

\* The catch of lines 115-125 for status 200, where skipCatch is false.
ClassifyBodyError(error) ==
    IF error = "DOMException" THEN "TimeoutError" ELSE "Error"

\* Lines 108-125: what fetchWithTimeout throws when reading the body throws `error`.
\* For a status other than 200, skipCatch is already true when response.text()
\* is awaited (lines 112-113), and the catch throws `error` again as it is.
BodyFailure(status, error) ==
    IF status = 200 THEN ClassifyBodyError(error) ELSE error

\* BodyOutcome with a status other than 200 reported as a failure of the network.
BodyOutcomeNetworkError(status, body) ==
    IF body = "broken" THEN BodyFailure(status, "TypeError")
    ELSE IF status # 200 THEN "NetworkError"
    ELSE IF body = "json" THEN "value"
    ELSE BodyFailure(status, "SyntaxError")

\* Lines 108-114: reading the body ends.  The body is JSON ("json"), is text
\* that is no JSON ("text"), for which response.json() throws a SyntaxError and
\* response.text() does not, or breaks off with the connection ("broken"),
\* for which both throw a TypeError.
BodyOutcome(status, body) ==
    IF body = "broken" THEN BodyFailure(status, "TypeError")
    ELSE IF status # 200 THEN "Error"
    ELSE IF body = "json" THEN "value"
    ELSE BodyFailure(status, "SyntaxError")

\* JSON.stringify(text), line 113: the text in quotes, from which the text can
\* be read back.
JSONStringify(text) == [quoted |-> text]

\* What the text of the error says once the body has been read to its end:
\* line 113 names the status and the body text, line 124 the status alone; an
\* error of response.text() thrown on (lines 116-118) names neither.
BodyMessage(status, body) ==
    IF status # 200
    THEN IF body.kind = "broken" THEN <<>>
         ELSE <<[status |-> status, body |-> <<JSONStringify(body)>>]>>
    ELSE IF body.kind = "json" THEN <<>>
    ELSE <<[status |-> status, body |-> <<>>]>>

\* What the call returns for the parsed body: getVersion the body itself
\* (line 197), getCardList the reshaped list (lines 209-211).
ReturnValue(api, json) == IF api = "getCardList" THEN mapCardList(json) ELSE json

\* fetch() resolves with a response (line 90).  A response takes time to come:
\* it is never there in the instant in which the request is sent.
ResponseArrives(status) ==
    /\ request.pc = "fetch"
    /\ request.host = "reachable"
    /\ now > request.start
    /\ request' = [request EXCEPT !.pc = "body", !.status = status, !.event = "response"]
    /\ UNCHANGED <<sockets, webSocket, webSocketInterval, onWebSocketRetry,
                   onWebSocketUpdate, retries, now, rejection, closedByCaller, vetoed,
                   lastAttempt, closedSince, observed>>

\* fetch() rejects because the host cannot be reached (lines 91-104).
TransportRejects ==
    /\ request.pc = "fetch"
    /\ request.host = "unreachable"
    /\ request' = [request EXCEPT !.pc = "done", !.event = "reject",
                                  !.outcome = ClassifyFetchError("TypeError")]
    /\ UNCHANGED <<sockets, webSocket, webSocketInterval, onWebSocketRetry,
                   onWebSocketUpdate, retries, now, rejection, closedByCaller, vetoed,
                   lastAttempt, closedSince, observed>>

\* The deadline elapses: fetch() (line 90), response.json() (line 110) or
\* response.text() (line 113) rejects with the signal's DOMException.
DeadlineAbort ==
    /\ request.pc \in {"fetch", "body"}
    /\ DeadlineElapsed
    /\ request' = [request EXCEPT !.pc = "done", !.event = "abort",
                      !.outcome = IF request.pc = "fetch"
                                  THEN ClassifyFetchError("DOMException")
                                  ELSE BodyFailure(request.status, "DOMException")]
    /\ UNCHANGED <<sockets, webSocket, webSocketInterval, onWebSocketRetry,
                   onWebSocketUpdate, retries, now, rejection, closedByCaller, vetoed,
                   lastAttempt, closedSince, observed>>

\* The body has been read to its end (lines 110 and 113).
BodyRead(body) ==
    /\ request.pc = "body"
    /\ request' = [request EXCEPT
                      !.pc = "done", !.event = "body", !.body = body,
                      !.outcome = BodyOutcome(request.status, body.kind),
                      !.value = IF BodyOutcome(request.status, body.kind) = "value"
                                THEN <<ReturnValue(request.api, body.json)>> ELSE <<>>,
                      !.message = BodyMessage(request.status, body)]
    /\ UNCHANGED <<sockets, webSocket, webSocketInterval, onWebSocketRetry,
                   onWebSocketUpdate, retries, now, rejection, closedByCaller, vetoed,
                   lastAttempt, closedSince, observed>>

----------------------------------------------------------------------------
\* Time passes.  The signal of a request fires when its deadline comes: time
\* does not go past the deadline of a request that is still running.
Tick(d) ==
    /\ now + d <= MaxTime
    /\ (request.pc \in {"fetch", "body"} /\ request.timed) => now + d <= request.deadline
    /\ now' = now + d
    /\ rejection' = "none"
    /\ observed' = Nothing
    /\ UNCHANGED <<sockets, webSocket, webSocketInterval, onWebSocketRetry,
                   onWebSocketUpdate, retries, closedByCaller, vetoed, lastAttempt,
                   closedSince, request>>

Init == InitChannel /\ request = IdleRequest

Next ==
    \/ \E arg \in IntervalArgs : openWebSocket(arg)
    \/ closeWebSocket
    \/ \E b \in BOOLEAN : SetOnWebSocketRetry(b)
    \/ \E s \in Slots : onopen(s)
    \/ \E s \in Slots : onerror(s)
    \/ \E s \in Slots : onclose(s)
    \/ \E r \in 1..Len(retries), result \in PolicyResults : RetryPolicyAnswer(r, result)
    \/ \E r \in 1..Len(retries) : RetryWake(r)
    \/ \E d \in TickSteps : Tick(d)

\* The channel's connections: open, close, drop and reconnect, with no request
\* running, no message coming in and the interval left as openWebSocket set it.
Spec == Init /\ [][Next]_vars

NextUpdate ==
    \/ \E arg \in IntervalArgs : openWebSocket(arg)
    \/ closeWebSocket
    \/ \E s \in Slots : onopen(s)
    \/ \E s \in Slots : onerror(s)
    \/ \E s \in Slots : onclose(s)
    \/ \E r \in 1..Len(retries) : RetryWake(r)
    \/ \E d \in TickSteps : Tick(d)
    \/ \E arg \in SetIntervalArgs : setWebSocketInterval(arg)
    \/ \E b \in BOOLEAN : SetOnWebSocketUpdate(b)
    \/ \E s \in Slots, cards \in MessageLists, result \in UpdateResults :
           onmessage(s, cards, result)

\* The channel with its messages and its interval, for a caller that registers
\* no retry policy (onWebSocketRetry stays null, so retry() always sleeps for
\* RETRY_INTERVAL before it reconnects).
UpdateSpec == Init /\ [][NextUpdate]_vars

NextFetch ==
    \/ \E arg \in TimeoutArgs, host \in {"reachable", "unreachable"} : getVersion(arg, host)
    \/ \E arg \in TimeoutArgs, host \in {"reachable", "unreachable"} : getCardList(arg, host)
    \/ \E status \in Statuses : ResponseArrives(status)
    \/ TransportRejects
    \/ DeadlineAbort
    \/ \E body \in Bodies : BodyRead(body)
    \/ \E d \in TickSteps : Tick(d)

\* The request executor, with the channel never opened.
FetchSpec == Init /\ [][NextFetch]_vars

----------------------------------------------------------------------------
(* The states of the channel, read off the sockets themselves. *)

\* Open: this.webSocket refers to an established, live connection.
ChannelOpen == webSocket # NoSocket /\ sockets[webSocket].st = "open"

\* Connecting: a call of openWebSocket() is waiting for its first connection.
ChannelConnecting ==
    \E s \in Slots : sockets[s].kind = "initial" /\ sockets[s].st = "connecting"

\* Retrying: an invocation of retry() is running, or its new socket is connecting.
ChannelRetrying ==
    \/ retries # <<>>
    \/ \E s \in Slots : sockets[s].kind = "reconnect" /\ sockets[s].st = "connecting"

\* The sockets that are connecting or open; each is wired to the channel's handlers.
LiveSockets == {s \in Slots : sockets[s].st \in {"connecting", "open"}}

\* This step constructed a socket (of the given kind).
Constructed(kind) ==
    \E s \in Slots : sockets[s].st = "free" /\ sockets'[s] = NewSocket(kind)

----------------------------------------------------------------------------
(* The channel of a caller that never closes it, with a retry policy that  *)
(* never answers false and a service that recovers.                        *)

\* The service refuses connections and drops them only before StableFrom.
ServiceFails == now < StableFrom

\* The answers of a retry policy that never returns false.
LivePolicyResults == PolicyResults \ {"false"}

\* Time passes (Date.now(), lines 269 and 284, and the timer of sleep).  Only
\* differences of time are read, so time is followed while the service still
\* fails, while a retry() sleeps and while a retry policy takes its time (here
\* up to RETRY_INTERVAL).
Elapse(d) ==
    /\ \/ ServiceFails
       \/ \E r \in 1..Len(retries) : retries[r].pc = "sleep" /\ ~SleepIsOver(r)
       \/ \E r \in 1..Len(retries) :
              retries[r].pc = "policy" /\ MustSleep(now - retries[r].t)
    /\ now' = now + d
    /\ rejection' = "none"
    /\ observed' = Nothing
    /\ UNCHANGED <<sockets, webSocket, webSocketInterval, onWebSocketRetry,
                   onWebSocketUpdate, retries, closedByCaller, vetoed, lastAttempt,
                   closedSince, request>>

\* The caller awaits each openWebSocket() call before it calls again, and
\* never calls closeWebSocket().
NextLive ==
    \/ \E arg \in IntervalArgs : ~ChannelConnecting /\ openWebSocket(arg)
    \/ \E b \in BOOLEAN : SetOnWebSocketRetry(b)
    \/ \E s \in Slots : onopen(s)
    \/ \E s \in Slots : ServiceFails /\ onerror(s)
    \/ \E s \in Slots : ServiceFails /\ onclose(s)
    \/ \E r \in 1..Len(retries), result \in LivePolicyResults : RetryPolicyAnswer(r, result)
    \/ \E r \in 1..Len(retries) : RetryWake(r)
    \/ \E d \in TickSteps : Elapse(d)

\* The event loop runs every callback that is due: a timer that has run out
\* resumes its retry(), the promise of the retry policy settles, a connection
\* attempt ends with an open event unless it ends with an error, and time goes on.
Fairness ==
    /\ WF_vars(\E s \in Slots : onopen(s))
    /\ WF_vars(\E r \in 1..Len(retries), result \in LivePolicyResults :
                   RetryPolicyAnswer(r, result))
    /\ WF_vars(\E r \in 1..Len(retries) : RetryWake(r))
    /\ WF_vars(\E d \in TickSteps : Elapse(d))

LiveSpec == Init /\ [][NextLive]_vars /\ Fairness

----------------------------------------------------------------------------
(* The claims. *)

\* C1: in every reachable state, isWebSocketRunning() is true if and only if the
\* channel is Open; it is false while Connecting, while Retrying and while Closed.
C1_RunningIffOpen == isWebSocketRunning <=> ChannelOpen

\* C2: after closeWebSocket() has returned, isWebSocketRunning() is false and
\* stays false until the caller calls openWebSocket() again, whatever a
\* connection attempt that was in flight at the time of the close does later.
C2_ClosedStaysClosed == closedByCaller => ~isWebSocketRunning

\* C3: a call of openWebSocket() made while the channel is Open or Connecting
\* is a no-op: it constructs no socket and leaves this.webSocket and the
\* recorded interval as they were.
C3_OpenIsNoOp ==
    [][\A arg \in IntervalArgs :
          (openWebSocket(arg) /\ (ChannelOpen \/ ChannelConnecting))
              => UNCHANGED <<sockets, webSocket, webSocketInterval>>]_vars

\* C4: at every instant at most one socket of the channel is connecting or
\* open, and at most one retry sequence is active.
C4_OneSocketOneRetry == Cardinality(LiveSockets) <= 1 /\ Len(retries) <= 1

\* C5: once the retry policy has answered false, and until the caller calls
\* openWebSocket() again, isWebSocketRunning() is false and the channel
\* constructs no socket.
C5_VetoCloses ==
    [][vetoed' => (~isWebSocketRunning' /\ (vetoed => ~Constructed("reconnect")))]_vars

\* C6: a reconnect attempt starts at least RETRY_INTERVAL (1000 ms) after the
\* reconnect attempt before it started.
C6_AttemptsSpaced ==
    [][(Constructed("reconnect") /\ lastAttempt >= 0)
          => now - lastAttempt >= RETRY_INTERVAL]_vars

\* C7: when the first connection attempt of an openWebSocket() call fails, the
\* call's promise rejects with a NetworkError, the channel is Closed afterwards
\* (isWebSocketRunning() is false), and the failure starts no retry sequence
\* and no connection attempt.
C7_FirstAttemptFails ==
    [][\A s \in Slots :
          (sockets[s].kind = "initial" /\ onerror(s))
              => /\ rejection' = "NetworkError"
                 /\ ~isWebSocketRunning'
                 /\ retries' = retries
                 /\ ~Constructed("reconnect") /\ ~Constructed("initial")]_vars

\* C8: when fetch() rejects for a reason other than the deadline (the host is
\* unreachable), getVersion() and getCardList() reject with a NetworkError that
\* is no TimeoutError, whatever the timeout.
C8_UnreachableIsNetworkError ==
    (request.pc = "done" /\ request.event = "reject")
        => request.outcome = "NetworkError"

\* A request with timeout 0 to an unreachable host has been rejected by the transport.
C8_Witness ==
    /\ request.pc = "done" /\ request.event = "reject"
    /\ request.arg = Timeout(0)
    /\ request.outcome = "NetworkError"

\* C9: whenever the deadline of a request elapses while it runs (before the
\* response, or while the body is read), the call fails with a TimeoutError and
\* with nothing else, for every response status.
C9_DeadlineIsTimeoutError ==
    (request.pc = "done" /\ request.event = "abort")
        => request.outcome = "TimeoutError"

\* C10: every explicit timeout >= 0, 0 included, puts a deadline on the request,
\* and getVersion(0) / getCardList(0) against a reachable service end with a
\* TimeoutError, never with a result.
C10_ZeroTimeoutTimesOut ==
    /\ (request.pc # "idle" /\ request.arg.def /\ request.arg.v >= 0)
          => (request.timed /\ request.deadline = request.start + request.arg.v)
    /\ (request.pc = "done" /\ request.arg = Timeout(0) /\ request.host = "reachable")
          => request.outcome = "TimeoutError"

\* getVersion(0) or getCardList(0) against a reachable service has ended.
C10_Witness ==
    /\ request.pc = "done" /\ request.arg = Timeout(0) /\ request.host = "reachable"
    /\ request.outcome = "TimeoutError"

\* A status outside 200..299.
NonSuccess(status) == status < 200 \/ status > 299

\* C11: when the service answers with a non-2xx status and the body of the
\* answer is read to its end, the call fails with a generic error, which is no
\* NetworkError and no TimeoutError, and the error's text carries the status
\* code and the raw text of the body.
C11_StatusFailureIsGeneric ==
    (/\ request.pc = "done" /\ request.event = "body"
     /\ NonSuccess(request.status) /\ request.body.kind # "broken")
        => /\ request.outcome = "Error"
           /\ request.outcome \notin {"NetworkError", "TimeoutError"}
           /\ Len(request.message) = 1
           /\ request.message[1].status = request.status
           /\ Len(request.message[1].body) = 1
           /\ request.message[1].body[1].quoted = request.body

\* The service answered 404 with a body of plain text, and the call failed.
C11_Witness ==
    /\ request.pc = "done" /\ request.event = "body"
    /\ request.status = 404 /\ request.body.kind = "text"
    /\ request.outcome = "Error"

\* C12: a failure of the update callback, thrown at once or as the rejection
\* of the promise it returned, stays inside the message handler: no exception
\* leaves onmessage, the channel's state is as before, and the socket goes on
\* delivering messages to the callback.
C12_CallbackFailureIsCaught ==
    [][\A s \in Slots, cards \in MessageLists, result \in {"throw", "reject"} :
          (onmessage(s, cards, result) /\ onWebSocketUpdate)
              => /\ ~observed'.escaped
                 /\ UNCHANGED <<sockets, webSocket, webSocketInterval, retries,
                                onWebSocketUpdate>>
                 /\ sockets'[s].st = "open"]_vars

\* C13: every message that arrives on an open socket of the channel while an
\* update callback is registered makes exactly one call of the callback, in
\* the turn of the message, with the reshaped card list of that message; on the
\* socket of the first connection and on a socket of a reconnect alike.
C13_EveryMessageInvokesOnce ==
    (observed.call = "onmessage" /\ onWebSocketUpdate)
        => /\ Len(observed.invoked) = 1
           /\ observed.invoked[1] = mapCardList(observed.message[1].cards)

\* A list of two cards arrived on a socket of a reconnect and went to the callback.
C13_Witness ==
    /\ observed.call = "onmessage" /\ onWebSocketUpdate
    /\ observed.message[1].kind = "reconnect"
    /\ Len(observed.message[1].cards) = 2
    /\ Len(observed.invoked) = 1

\* C14: setWebSocketInterval() returns true only when the interval was sent
\* over a live connection: it returns false whenever the channel is not Open,
\* and for the interval undefined it returns false in every state.
C14_TrueOnlyIfSent ==
    [][\A arg \in SetIntervalArgs :
          setWebSocketInterval(arg)
              => /\ observed'.returned = <<TRUE>>
                        => /\ ChannelOpen
                           /\ Len(observed'.sent) = 1
                           /\ Transmitted(observed'.sent[1].state)
                 /\ ~ChannelOpen => observed'.returned = <<FALSE>>
                 /\ ~arg.def => observed'.returned = <<FALSE>>]_vars

\* C15: a reconnect attempt is made with the interval recorded for the channel
\* at that time: setWebSocketInterval(n) on an open channel records the clamped
\* n and returns true, setWebSocketInterval(undefined) clears the record and
\* returns false, and the address of a reconnect socket has `interval=` the
\* recorded interval, or no such parameter when none is recorded.
C15_ReconnectUsesLatestInterval ==
    [][/\ \A arg \in SetIntervalArgs :
             (setWebSocketInterval(arg) /\ ChannelOpen)
                 => IF arg.def
                    THEN /\ webSocketInterval' = Interval(IF arg.v < 0 THEN 0 ELSE arg.v)
                         /\ observed'.returned = <<TRUE>>
                    ELSE /\ webSocketInterval' = UndefinedInterval
                         /\ observed'.returned = <<FALSE>>
       /\ Constructed("reconnect")
             => /\ Len(observed'.address) = 1
                /\ observed'.address[1].query =
                       IF webSocketInterval.def
                       THEN <<[key |-> "interval", value |-> ToString(webSocketInterval)]>>
                       ELSE <<>>]_vars

\* A reconnect socket was constructed with `interval=5` in its address (5 is
\* never the interval of an openWebSocket call here: it was set on the way).
C15_Witness ==
    /\ observed.call = "none"
    /\ observed.address = <<[path |-> "/ws",
                             query |-> <<[key |-> "interval",
                                          value |-> [sign |-> "", whole |-> 5, frac |-> 0]]>>]>>

\* C16: openWebSocket(undefined) constructs its socket with an address that
\* has no interval parameter and records no interval for the channel.
C16_OpenUndefinedOmitsInterval ==
    [][(openWebSocket(UndefinedInterval) /\ Constructed("initial"))
          => /\ Len(observed'.address) = 1
             /\ observed'.address[1].query = <<>>
             /\ ~webSocketInterval'.def]_vars

\* C17: an interval given to openWebSocket or setWebSocketInterval is replaced
\* by 0 when negative and by its floor otherwise (-5 does what 0 does, 2.9 what
\* 2 does), so the recorded interval is always undefined or a non-negative
\* integer, and so is every interval put in an address or sent on a socket.
C17_IntervalsAreClamped ==
    [][/\ webSocketInterval'.def
             => (webSocketInterval'.v >= 0 /\ webSocketInterval'.frac = 0)
       /\ \A i \in 1..Len(observed'.address) :
             \A q \in 1..Len(observed'.address[i].query) :
                IsNonNegativeInteger(observed'.address[i].query[q].value)
       /\ \A i \in 1..Len(observed'.sent) : IsNonNegativeInteger(observed'.sent[i].data)
       /\ openWebSocket(Interval(-5)) <=> openWebSocket(Interval(0))
       /\ openWebSocket(Fraction(2, 9)) <=> openWebSocket(Interval(2))
       /\ setWebSocketInterval(Interval(-5)) <=> setWebSocketInterval(Interval(0))
       /\ setWebSocketInterval(Fraction(2, 9)) <=> setWebSocketInterval(Interval(2))]_vars

\* openWebSocket(-5) constructed a socket: its address says `interval=0`.
C17_Witness ==
    /\ observed.call = "openWebSocket"
    /\ observed.address = <<[path |-> "/ws",
                             query |-> <<[key |-> "interval",
                                          value |-> [sign |-> "", whole |-> 0, frac |-> 0]]>>]>>
    /\ webSocketInterval = Interval(0)

\* C18: closeWebSocket() on an open channel closes the connection with code
\* 1000 and isWebSocketRunning() is false at once; a call that finds
\* this.webSocket null (the call repeated, or the channel Closed) changes
\* nothing, and close() is never called on a socket it was called on before.
C18_CloseIsIdempotent ==
    [][closeWebSocket
          => /\ ~isWebSocketRunning'
             /\ ChannelOpen
                   => /\ observed'.closed = <<[code |-> 1000, state |-> "open"]>>
                      /\ sockets'[webSocket].st = "closing"
             /\ ~isWebSocketRunning
                   => /\ UNCHANGED <<sockets, webSocket, webSocketInterval, retries>>
                      /\ observed'.closed = <<>>
             /\ \A i \in 1..Len(observed'.closed) : observed'.closed[i].state # "closing"]_vars

\* closeWebSocket() was called and closed nothing, while the socket that an
\* earlier call closed is still in its closing handshake.
C18_Witness ==
    /\ observed.call = "closeWebSocket" /\ observed.closed = <<>>
    /\ closedByCaller /\ webSocket = NoSocket
    /\ \E s \in Slots : sockets[s].st = "closing"

\* C19: the list getCardList() returns has the length and the order of the
\* wire list, and its element i has the seven domain fields with the values
\* of the wire fields of element i, the two timestamps as points in time.
C19_ReshapeKeepsCards ==
    (request.pc = "done" /\ request.api = "getCardList" /\ request.outcome = "value")
        => LET wire == request.body.json
               cards == request.value[1]
           IN /\ Len(request.value) = 1
              /\ DOMAIN cards = 1..Len(wire)
              /\ \A i \in 1..Len(wire) :
                    /\ DOMAIN cards[i] = {"readerName", "cardNo", "fullName", "idNo",
                                          "birthday", "sex", "issueDate"}
                    /\ cards[i].readerName = wire[i].reader_name
                    /\ cards[i].cardNo = wire[i].card_no
                    /\ cards[i].fullName = wire[i].full_name
                    /\ cards[i].idNo = wire[i].id_no
                    /\ cards[i].sex = wire[i].sex
                    /\ cards[i].birthday = [time |-> wire[i].birth_date_timestamp]
                    /\ cards[i].issueDate = [time |-> wire[i].issue_date_timestamp]

\* getCardList() returned the list for a wire list of two different cards.
C19_Witness ==
    /\ request.pc = "done" /\ request.api = "getCardList" /\ request.outcome = "value"
    /\ Len(request.body.json) = 2
    /\ request.body.json[1] # request.body.json[2]
    /\ Len(request.value) = 1 /\ Len(request.value[1]) = 2

\* C20: when the retry policy answers true or undefined, throws or rejects,
\* the policy does not close the channel (this.webSocket is left as it is) and
\* retry() goes on: to the delay when less than RETRY_INTERVAL has passed since
\* it started, else to the reconnect attempt.
C20_OnlyFalseVetoes ==
    [][\A r \in 1..Len(retries), result \in PolicyResults \ {"false"} :
          RetryPolicyAnswer(r, result)
              => /\ webSocket' = webSocket
                 /\ vetoed' = vetoed
                 /\ IF now - retries[r].t < RETRY_INTERVAL
                    THEN /\ Len(retries') = Len(retries)
                         /\ retries'[r].pc = "sleep"
                         /\ retries'[r].wake = retries[r].t + RETRY_INTERVAL
                    ELSE isWebSocketRunning => Constructed("reconnect")]_vars

\* The policy gave an answer that is no veto, and retry() is in its delay with
\* this.webSocket still set.
C20_Witness ==
    /\ observed.policy = <<FALSE>>
    /\ webSocket # NoSocket
    /\ \E r \in 1..Len(retries) : retries[r].pc = "sleep"

\* C21: a retry sequence that was waiting (for the retry policy or for the
\* delay) when closeWebSocket() was called constructs no socket when it goes
\* on, whatever the caller did in between, a new openWebSocket() included.
C21_ClosedRetryMakesNoAttempt ==
    [][\A r \in 1..Len(retries) :
          (/\ closedSince[r]
           /\ \/ RetryWake(r)
              \/ \E result \in PolicyResults : RetryPolicyAnswer(r, result))
              => ~Constructed("reconnect")]_vars

\* C22: once closeWebSocket() has returned (and openWebSocket() was not called
\* again), a close event or the error event of a reconnect attempt starts no
\* retry(): the retry policy is not called and no delay is started.
C22_NoRetryAfterClose ==
    [][\A s \in Slots :
          (closedByCaller /\ (onclose(s) \/ onerror(s))) => retries' = retries]_vars

\* The connection this.webSocket refers to has dropped: it was Open, it is
\* closed now, and the channel was neither closed nor vetoed.
Dropped == webSocket # NoSocket /\ sockets[webSocket].st = "closed"

\* C23: when the caller never closes the channel, the retry policy never
\* answers false and the service accepts connections from some time on, a
\* dropped connection leads to an Open channel again; and every error event of
\* a reconnect attempt starts one more retry().
C23_ReconnectsUntilOpen ==
    /\ [][\A s \in Slots :
             (onerror(s) /\ sockets[s].kind = "reconnect")
                 => Len(retries') = Len(retries) + 1]_vars
    /\ (Dropped ~> ChannelOpen)

\* The channel is Open again on a socket of the reconnect path, after at least
\* two retry sequences.
C23_Witness ==
    /\ ChannelOpen
    /\ sockets[webSocket].kind = "reconnect"
    /\ lastAttempt >= 2 * RETRY_INTERVAL

\* C24: the close event of an open socket of the reconnect path, while
\* this.webSocket is set, starts one retry() at its first step (the call of
\* the retry policy, or the delay when none is registered), just as the close
\* event of the socket of openWebSocket() does.
C24_ReconnectedSocketRetries ==
    [][\A s \in Slots :
          (/\ onclose(s)
           /\ sockets[s].kind = "reconnect"
           /\ sockets[s].st = "open"
           /\ isWebSocketRunning)
              => /\ Len(retries') = Len(retries) + 1
                 /\ SubSeq(retries', 1, Len(retries)) = retries
                 /\ retries'[Len(retries')].t = now
                 /\ retries'[Len(retries')].pc =
                        IF onWebSocketRetry THEN "policy" ELSE "sleep"]_vars

\* The socket a reconnect installed has dropped in its turn, and a retry()
\* started at that moment is running.
C24_Witness ==
    /\ Dropped
    /\ sockets[webSocket].kind = "reconnect"
    /\ retries # <<>>
    /\ retries[Len(retries)].t = now
    /\ lastAttempt >= 0

\* C25: a response with a status in 200..299 whose body is JSON and is read
\* to its end within the deadline makes the call return the parsed body; the
\* error that names the status and the body is thrown for no such status.
C25_Every2xxIsSuccess ==
    (/\ request.pc = "done" /\ request.event = "body"
     /\ ~NonSuccess(request.status) /\ request.body.kind = "json")
        => /\ request.outcome = "value"
           /\ request.value = <<ReturnValue(request.api, request.body.json)>>

\* C26: when the service answers with a status in 200..299 and the body is
\* no JSON or cannot be read, and the deadline does not elapse, the call fails
\* with an error outside the taxonomy: no NetworkError and no TimeoutError.  For
\* status 200 it is the Error of line 124, whose text names the status only.
C26_UnreadableBodyIsGeneric ==
    (/\ request.pc = "done" /\ request.event = "body"
     /\ ~NonSuccess(request.status) /\ request.body.kind \in {"text", "broken"})
        => /\ request.outcome \in {"Error", "TypeError", "SyntaxError"}
           /\ request.value = <<>>
           /\ request.status = 200
                 => /\ request.outcome = "Error"
                    /\ request.message = <<[status |-> 200, body |-> <<>>]>>

\* The service answered 200 with a body that is no JSON, and the call failed
\* with a plain Error.
C26_Witness ==
    /\ request.pc = "done" /\ request.event = "body"
    /\ request.status = 200 /\ request.body.kind = "text"
    /\ request.outcome = "Error"
====
